---- MODULE Spec2Model ----
(***************************************************************************)
(* Transit Network Analysis Tools.                                         *)
(*   CalculateAccessibility.py : runTool, the Calculate Accessibility      *)
(*                               Matrix tool.                              *)
(*   ToolValidator.py          : the shared parameter validation methods.  *)
(*                                                                         *)
(* Floating-point values of the program (percentages) are kept as exact    *)
(* fractions [num, den]; for the counts and instant numbers of this model  *)
(* the double-precision comparison "percent >= threshold" agrees with the  *)
(* exact one.  A fraction with den = 0 stands for a Null cell of a table.  *)
(***************************************************************************)
EXTENDS Integers, Sequences, FiniteSets, TLC

\* ------------------------------------------------------------------ bounds
\* Rows of the input Destinations feature class (ObjectIDs 1..DestinationRows).
DestinationRows == 2
\* The longest list of times of day the time-window helper returns.
MaxInstants == 2
\* Rows already held by the OD layer's sublayers before AddLocations
\* (append="CLEAR" does not restart the sublayer's ObjectIDs at 1).
PriorRows == 1
\* The values a user types into the tool dialog in one session.
MaxEdits == 2

\* ObjectIDs of the input Origins feature class.
OriginOIDs == {1, 2}
DestOIDs == 1..DestinationRows
\* Numbers a weight field holds besides Null.
WeightValues == {-1, 0, 2}

\* ------------------------------------------------------------- values
Null == [num |-> 0, den |-> 0]
Long(n) == [num |-> n, den |-> 1]
Frac(n, d) == [num |-> n, den |-> d]
IsNull(v) == v.den = 0
\* a >= b for two fractions that are not Null
FracGeq(a, b) ==
    IF a.den * b.den > 0 THEN a.num * b.den >= b.num * a.den
                         ELSE a.num * b.den <= b.num * a.den
FracEq(a, b) == a.den # 0 /\ b.den # 0 /\ a.num * b.den = b.num * a.den

EmptyDict == [k \in {} |-> 0]
Range(s) == {s[i] : i \in DOMAIN s}

RECURSIVE SumOver(_, _)
SumOver(f, S) ==
    IF S = {} THEN 0
    ELSE LET x == CHOOSE y \in S : TRUE IN f[x] + SumOver(f, S \ {x})

\* The ascending sequence of the elements of a finite set of integers
\* (the order a cursor returns rows in).
RECURSIVE SortedSeq(_)
SortedSeq(S) ==
    IF S = {} THEN <<>>
    ELSE LET m == CHOOSE x \in S : \A y \in S : x <= y
         IN <<m>> \o SortedSeq(S \ {m})

\* ------------------------------------------------------------ messages
LicenseError == "You must have a Network Analyst license to use this tool."
LayerError == "Input layer must be an OD Cost Matrix layer."
EmptyOriginsError == "Your Origins feature class is empty."
EmptyDestinationsError == "Your Destinations feature class is empty."
WeightError == "The weight field of your input Destinations table has values of 0 or Null for all rows."
TimeWindowError == "invalid time window"
SolveFailedMessage == "Solve failed. Continuing to next time of day."
AddingMessage == "Adding Origins and Destinations to OD Cost Matrix Layer..."
SolvingMessage == "Solving OD Cost matrix at time..."
StatisticsMessage == "Calculating statistics and writing results..."
DoneMessage == "Done!  Statistics fields have been added to your input Origins layer."

VARIABLES
    \* --- the host and the inputs of runTool
    extension,                  \* arcpy.CheckExtension("Network")
    layer_desc,                 \* arcpy.Describe(input_network_analyst_layer)
    origins_feature_class,      \* set of ObjectIDs of the origins table
    destinations_feature_class, \* ObjectID -> value of the weight column
    destinations_weight_field,  \* TRUE when a weight field is given
    time_window,                \* what the time-window helper will do: 0 = fail, n = n instants
    origin_fields,              \* the fields added to the origins table, in order
    origin_rows,                \* ObjectID -> (field name -> value)
    \* --- runTool
    pc,
    timelist,
    origins_subLayer,           \* sublayer ObjectID -> InputOID
    destinations_subLayer,      \* sublayer ObjectID -> InputOID
    origins_oid_dict,
    destinations_oid_dict,
    OD_count_dict,
    timeOfDay,                  \* solverProps.timeOfDay
    next_t,                     \* how many elements of timelist the loop has taken
    num_dests,
    percent_of_times_reachable, \* (origin, dest) sublayer pair -> last value computed
    errors,                     \* arcpy.AddError calls
    messages,                   \* arcpy.AddMessage calls
    \* --- what the solver did (history)
    solve_log,                  \* one record per arcpy.na.Solve call
    times_reached,              \* (origin InputOID, dest InputOID) -> successful solves holding the pair
    rerun,                      \* TRUE once runTool has been run again on the same origins
    previous_rows,              \* origin_rows as the run in progress found it
    \* --- the tool dialog (ToolValidator.py)
    params,                     \* parameter name -> the host's Parameter object
    last_call,                  \* the validation method that ran last and the errors it set
    edits                       \* how many values the user has typed

run_vars == <<extension, layer_desc, origins_feature_class, destinations_feature_class,
              destinations_weight_field, time_window, origin_fields, origin_rows, pc,
              timelist, origins_subLayer, destinations_subLayer, origins_oid_dict,
              destinations_oid_dict, OD_count_dict, timeOfDay, next_t, num_dests,
              percent_of_times_reachable, errors, messages, solve_log, times_reached,
              rerun, previous_rows>>

val_vars == <<params, last_call, edits>>

vars == <<run_vars, val_vars>>

\* ------------------------------------------------------- the host (arcpy)
ODLayer == [dataType |-> "NALayer", solverName |-> "OD Cost Matrix Solver"]
LayerDescs == {ODLayer,
               [dataType |-> "NALayer", solverName |-> "Route Solver"],
               [dataType |-> "FeatureLayer", solverName |-> ""],
               [dataType |-> "DoesNotExist", solverName |-> ""]}

\* A weight column: Null or a number in every row.
WeightCells == {Null} \cup {Long(w) : w \in WeightValues}

\* int(arcpy.management.GetCount(table).getOutput(0))
GetCount(rows) == Cardinality(rows)

\* arcpy.management.AddField: "If the fields already exist, this will do nothing."
AddField(fields, name) ==
    IF name \in Range(fields) THEN fields ELSE Append(fields, name)

\* The rows of a table after its field list became `fields`: a new field is Null.
WithFields(rows, fields) ==
    [o \in DOMAIN rows |->
        [f \in Range(fields) |-> IF f \in DOMAIN rows[o] THEN rows[o][f] ELSE Null]]

\* arcpy.na.AddLocations(..., append="CLEAR") with InputOID mapped to the input's
\* ObjectID: the sublayer's rows, numbered after the rows it held before.
AddLocations(oids) ==
    LET s == SortedSeq(oids)
    IN [k \in {PriorRows + i : i \in DOMAIN s} |-> s[k - PriorRows]]

\* AnalysisHelpers.make_analysis_time_of_day_list: the ordered list of times of
\* day of a window holding n instants (the instants are numbered 1..n).
make_analysis_time_of_day_list(n) == [i \in 1..n |-> i]

\* ------------------------------------------------------------- runTool
\* (changed) the expression without its "<> 0" half
NotNullWeighted(dests) == {d \in DOMAIN dests : ~IsNull(dests[d])}

\* "%s IS NOT NULL AND %s <> 0" over the destinations table
NonzeroWeighted(dests) == {d \in DOMAIN dests : ~IsNull(dests[d]) /\ dests[d].num # 0}

\* destinations_layer: the rows of the destinations the analysis uses
destinations_layer(dests, weighted) ==
    IF weighted THEN NonzeroWeighted(dests) ELSE DOMAIN dests

\* {Input feature class Object ID: Origins sublayer OID}
OriginsOidDict(sub) == [o \in Range(sub) |-> CHOOSE k \in DOMAIN sub : sub[k] = o]
\* {Destination sublayer OID: Input feature class Object ID}
DestinationsOidDict(sub) == [k \in DOMAIN sub |-> sub[k]]

RunInit ==
    /\ extension \in {"Available", "Unavailable"}
    /\ layer_desc \in LayerDescs
    /\ origins_feature_class \in {{}, OriginOIDs}
    /\ destinations_weight_field \in BOOLEAN
    /\ destinations_feature_class \in
         IF destinations_weight_field
         THEN [DestOIDs -> WeightCells] \cup {EmptyDict}
         ELSE {[d \in DestOIDs |-> Null], EmptyDict}
    /\ time_window \in 0..MaxInstants
    /\ origin_fields = <<>>
    /\ origin_rows = [o \in origins_feature_class |-> EmptyDict]
    /\ pc = "start"
    /\ timelist = <<>>
    /\ origins_subLayer = EmptyDict
    /\ destinations_subLayer = EmptyDict
    /\ origins_oid_dict = EmptyDict
    /\ destinations_oid_dict = EmptyDict
    /\ OD_count_dict = EmptyDict
    /\ timeOfDay = 0
    /\ next_t = 0
    /\ num_dests = 0
    /\ percent_of_times_reachable = EmptyDict
    /\ errors = <<>>
    /\ messages = <<>>
    /\ solve_log = <<>>
    /\ times_reached = [p \in OriginOIDs \X DestOIDs |-> 0]
    /\ rerun = FALSE
    /\ previous_rows = origin_rows

env_vars == <<extension, layer_desc, origins_feature_class, destinations_feature_class,
              destinations_weight_field, time_window, rerun, previous_rows, val_vars>>
table_vars == <<origin_fields, origin_rows>>
loop_vars == <<OD_count_dict, timeOfDay, next_t, solve_log, times_reached>>
setup_vars == <<timelist, origins_subLayer, destinations_subLayer, origins_oid_dict,
                destinations_oid_dict>>

\* (changed) no except clause for CustomError: it reaches the caller
CustomErrorUncaught(message) ==
    /\ errors' = Append(errors, message)
    /\ pc' = "raised"

\* except CustomError: pass -- the run ends and runTool returns normally
CustomError(message) ==
    /\ errors' = Append(errors, message)
    /\ pc' = "returned"

\* Lines 71-184: the checks, the time list, loading the OD layer.
Setup ==
    /\ pc = "start"
    /\ UNCHANGED <<env_vars, table_vars, loop_vars, num_dests, percent_of_times_reachable>>
    /\ IF extension # "Available" THEN
            /\ CustomError(LicenseError)
            /\ UNCHANGED <<setup_vars, messages>>
       ELSE IF layer_desc.dataType = "DoesNotExist" THEN
            \* arcpy.Describe raises: not a CustomError, it reaches the caller
            /\ pc' = "raised"
            /\ UNCHANGED <<setup_vars, messages, errors>>
       ELSE IF layer_desc.dataType # "NALayer"
                 \/ layer_desc.solverName # "OD Cost Matrix Solver" THEN
            /\ CustomError(LayerError)
            /\ UNCHANGED <<setup_vars, messages>>
       ELSE IF GetCount(origins_feature_class) = 0 THEN
            /\ CustomError(EmptyOriginsError)
            /\ UNCHANGED <<setup_vars, messages>>
       ELSE IF GetCount(DOMAIN destinations_feature_class) = 0 THEN
            /\ CustomError(EmptyDestinationsError)
            /\ UNCHANGED <<setup_vars, messages>>
       ELSE IF time_window = 0 THEN
            \* the helper reports the error and raises; except: raise CustomError
            /\ CustomError(TimeWindowError)
            /\ UNCHANGED <<setup_vars, messages>>
       ELSE IF destinations_weight_field
                 /\ GetCount(destinations_layer(destinations_feature_class, TRUE)) = 0 THEN
            /\ timelist' = make_analysis_time_of_day_list(time_window)
            /\ messages' = Append(messages, AddingMessage)
            /\ CustomError(WeightError)
            /\ UNCHANGED <<origins_subLayer, destinations_subLayer, origins_oid_dict,
                           destinations_oid_dict>>
       ELSE
            /\ timelist' = make_analysis_time_of_day_list(time_window)
            /\ origins_subLayer' = AddLocations(origins_feature_class)
            /\ destinations_subLayer' =
                 AddLocations(destinations_layer(destinations_feature_class,
                                                 destinations_weight_field))
            /\ origins_oid_dict' = OriginsOidDict(origins_subLayer')
            /\ destinations_oid_dict' = DestinationsOidDict(destinations_subLayer')
            /\ messages' = messages \o <<AddingMessage, SolvingMessage>>
            /\ pc' = "solve"
            /\ UNCHANGED errors

\* ------------------------------------------------------ the solve loop
\* for line in cur: the dictionary after the rows of Lines have been counted
RECURSIVE ReadLines(_, _)
ReadLines(dict, lines) ==
    IF lines = {} THEN dict
    ELSE LET line == CHOOSE l \in lines : TRUE
             d1 == IF line[1] \notin DOMAIN dict
                   THEN dict @@ (line[1] :> EmptyDict) ELSE dict
             inner == IF line[2] \notin DOMAIN d1[line[1]]
                      THEN d1[line[1]] @@ (line[2] :> 1)
                      ELSE [d1[line[1]] EXCEPT ![line[2]] = @ + 1]
         IN ReadLines([d1 EXCEPT ![line[1]] = inner], lines \ {line})

\* The rows the solver can write to the ODLines sublayer: one per origin and
\* destination it loaded and reached within the cutoff.
PossibleLines ==
    SUBSET ((DOMAIN origins_subLayer) \X (DOMAIN destinations_subLayer)) \ {{}}

\* The solver's side of one successful solve, by the inputs' ObjectIDs.
Reached(lines) ==
    [p \in OriginOIDs \X DestOIDs |->
        IF \E l \in lines : origins_subLayer[l[1]] = p[1] /\ destinations_subLayer[l[2]] = p[2]
        THEN times_reached[p] + 1 ELSE times_reached[p]]

\* for t in timelist: the loop ends after the last element
AfterIteration == IF next_t + 1 = Len(timelist) THEN "stats" ELSE "solve"

\* Lines 186-193 of one iteration: the message, the time of day, the Solve call
BeginIteration(result) ==
    LET t == timelist[next_t + 1]
    IN /\ pc = "solve"
       /\ next_t < Len(timelist)
       /\ timeOfDay' = t
       /\ solve_log' = Append(solve_log, [timeOfDay |-> timeOfDay', result |-> result])
       /\ next_t' = next_t + 1
       /\ UNCHANGED <<env_vars, table_vars, setup_vars, num_dests,
                      percent_of_times_reachable, errors>>

\* The solve succeeds and Lines is read (lines 203-212).
SolveSucceeds ==
    \E lines \in PossibleLines :
        /\ BeginIteration("Solved")
        /\ messages' = Append(messages, ToString(timelist[next_t + 1]))
        /\ OD_count_dict' = ReadLines(OD_count_dict, lines)
        /\ times_reached' = Reached(lines)
        /\ pc' = AfterIteration

\* (changed) the iteration reads the Lines a previous solve left behind
SolveNoSolutionReadsLines ==
    \E lines \in PossibleLines :
        /\ BeginIteration("No solution found")
        /\ messages' = Append(messages, ToString(timelist[next_t + 1]))
        /\ OD_count_dict' = ReadLines(OD_count_dict, lines)
        /\ UNCHANGED times_reached
        /\ pc' = AfterIteration

\* The solve raises and arcpy.GetMessages(2) holds "No solution found".
SolveNoSolution ==
    /\ BeginIteration("No solution found")
    /\ messages' = Append(messages, ToString(timelist[next_t + 1]))
    /\ UNCHANGED <<OD_count_dict, times_reached>>
    /\ pc' = AfterIteration

\* (changed) the failure of a solve is not caught and ends the run
SolveFailsAndStops ==
    /\ BeginIteration("Error")
    /\ messages' = Append(messages, ToString(timelist[next_t + 1]))
    /\ UNCHANGED <<OD_count_dict, times_reached>>
    /\ pc' = "raised"

\* (changed) the failure of a solve is passed over without a message
SolveFailsSilently ==
    /\ BeginIteration("Error")
    /\ messages' = Append(messages, ToString(timelist[next_t + 1]))
    /\ UNCHANGED <<OD_count_dict, times_reached>>
    /\ pc' = AfterIteration

\* The solve raises for another reason.
SolveFails ==
    /\ BeginIteration("Error")
    /\ messages' = messages \o <<ToString(timelist[next_t + 1]), SolveFailedMessage>>
    /\ UNCHANGED <<OD_count_dict, times_reached>>
    /\ pc' = AfterIteration

\* ------------------------------------------- statistics and the output
dest_field(i) == "DsAL" \o ToString(i) \o "0Perc"
perc_field(i) == "PsAL" \o ToString(i) \o "0Perc"

\* what "for i in range(1, 10)" has appended to stats_fields after i
RECURSIVE ThresholdFields(_)
ThresholdFields(i) ==
    IF i = 0 THEN <<>>
    ELSE ThresholdFields(i - 1) \o <<dest_field(i), perc_field(i)>>

stats_fields == <<"TotalDests", "PercDests">> \o ThresholdFields(9)

\* the AddField calls of lines 231-240, in order
RECURSIVE AddFields(_, _)
AddFields(fields, names) ==
    IF names = <<>> THEN fields
    ELSE AddFields(AddField(fields, Head(names)), Tail(names))

\* range(10, 100, 10)
Thresholds == {10 * i : i \in 1..9}

\* {Input Destinations feature class ObjectID: Weight}
destination_weight_dict ==
    IF destinations_weight_field
    THEN [d \in destinations_layer(destinations_feature_class, TRUE) |->
             destinations_feature_class[d].num]
    ELSE EmptyDict

\* (changed) len(OD_count_dict) where len(destinations_oid_dict) is meant
NumDestsCounted(weight_dict) ==
    IF destinations_weight_field
    THEN SumOver(weight_dict, DOMAIN weight_dict)
    ELSE Cardinality(DOMAIN OD_count_dict)

\* num_dests: the sum of the weights, or len(destinations_oid_dict)
NumDests(weight_dict) ==
    IF destinations_weight_field
    THEN SumOver(weight_dict, DOMAIN weight_dict)
    ELSE Cardinality(DOMAIN destinations_oid_dict)

\* (changed) the times of day whose solve succeeded, not all of them
TimesOfDaySolved == Cardinality({i \in DOMAIN solve_log : solve_log[i].result = "Solved"})

\* float(len(timelist))
TimesOfDay == Len(timelist)

\* (float(count) / float(len(timelist))) * 100
PercentOfTimesReachable(count) == Frac(count * 100, TimesOfDay)

\* the destinations of OD_count_dict[origin_OID] with a count > 0
EverReached(origin_OID) ==
    IF origin_OID \in DOMAIN OD_count_dict
    THEN {dest \in DOMAIN OD_count_dict[origin_OID] : OD_count_dict[origin_OID][dest] > 0}
    ELSE {}

\* dests_to_add: the weight of the destination, or 1
DestsToAdd(dest, weight_dict) ==
    IF weight_dict # EmptyDict
    THEN weight_dict[destinations_oid_dict[dest]]
    ELSE 1

\* (changed) a destination counted only in the bucket its percentage falls in
ReachedAbout(origin_OID, dest, perc) ==
    /\ FracGeq(PercentOfTimesReachable(OD_count_dict[origin_OID][dest]), Long(perc))
    /\ ~FracGeq(PercentOfTimesReachable(OD_count_dict[origin_OID][dest]), Long(perc + 10))

\* percent_of_times_reachable >= perc
ReachedAtLeast(origin_OID, dest, perc) ==
    FracGeq(PercentOfTimesReachable(OD_count_dict[origin_OID][dest]), Long(perc))

\* reachable_dests after the loop over the destinations
ReachableDests(origin_OID, weight_dict) ==
    LET reached == EverReached(origin_OID)
    IN SumOver([dest \in reached |-> DestsToAdd(dest, weight_dict)], reached)

\* reachable_dests_perc after the loop over the destinations
ReachableDestsPerc(origin_OID, weight_dict) ==
    LET reached == EverReached(origin_OID)
        add == [dest \in reached |-> DestsToAdd(dest, weight_dict)]
    IN [perc \in Thresholds |->
          SumOver(add, {dest \in reached : ReachedAtLeast(origin_OID, dest, perc)})]

\* (float(n) / float(num_dests)) * 100
PercentOfDests(n, nd) == Frac(n * 100, nd)

\* row[1..20] of the update cursor for one origin (row[0] is the ObjectID)
RowStatistics(origin_OID, weight_dict, nd) ==
    LET reachable_dests == ReachableDests(origin_OID, weight_dict)
        reachable_dests_perc == ReachableDestsPerc(origin_OID, weight_dict)
    IN [k \in 1..Len(stats_fields) |->
          IF k = 1 THEN Long(reachable_dests)
          ELSE IF k = 2 THEN PercentOfDests(reachable_dests, nd)
          ELSE LET r == (k - 3) \div 2
                   n == reachable_dests_perc[10 + 10 * r]
               IN IF k = 3 + 2 * r THEN Long(n) ELSE PercentOfDests(n, nd)]

\* (changed) the values of the row are added to the values the cells hold
UpdateRowAdding(cells, row) ==
    LET fields == stats_fields
    IN [f \in DOMAIN cells |->
          IF \E k \in DOMAIN fields : fields[k] = f
          THEN LET new == row[CHOOSE k \in DOMAIN fields : fields[k] = f]
               IN IF IsNull(cells[f]) THEN new
                  ELSE Frac(cells[f].num * new.den + new.num * cells[f].den,
                            cells[f].den * new.den)
          ELSE cells[f]]

\* cur.updateRow(row): the cells of the cursor's fields take the values of row
UpdateRow(cells, row) ==
    LET fields == stats_fields
    IN [f \in DOMAIN cells |->
          IF \E k \in DOMAIN fields : fields[k] = f
          THEN row[CHOOSE k \in DOMAIN fields : fields[k] = f]
          ELSE cells[f]]

\* the percentages computed while the cursor was on the rows `oids`
PercentsComputed(oids) ==
    [p \in {q \in (DOMAIN origins_subLayer) \X (DOMAIN destinations_subLayer) :
               origins_subLayer[q[1]] \in oids /\ q[2] \in EverReached(q[1])} |->
        PercentOfTimesReachable(OD_count_dict[p[1]][p[2]])]

\* Lines 217-280.
Statistics ==
    /\ pc = "stats"
    /\ LET weight_dict == destination_weight_dict
           nd == NumDests(weight_dict)
           fields == AddFields(origin_fields, stats_fields)
           table == WithFields(origin_rows, fields)
           first == CHOOSE o \in origins_feature_class :
                        \A x \in origins_feature_class : o <= x
       IN /\ num_dests' = nd
          /\ origin_fields' = fields
          /\ IF nd = 0 THEN
                \* float division by zero on the first row: ZeroDivisionError
                /\ origin_rows' = table
                /\ percent_of_times_reachable' = PercentsComputed({first})
                /\ messages' = Append(messages, StatisticsMessage)
                /\ pc' = "raised"
             ELSE
                /\ origin_rows' =
                     [o \in DOMAIN table |->
                         UpdateRow(table[o], RowStatistics(origins_oid_dict[o], weight_dict, nd))]
                /\ percent_of_times_reachable' = PercentsComputed(origins_feature_class)
                /\ messages' = messages \o <<StatisticsMessage, DoneMessage>>
                /\ pc' = "done"
    /\ UNCHANGED <<env_vars, setup_vars, loop_vars, errors>>

\* runTool is run again on the same inputs: its locals start afresh, the
\* origins table keeps the fields and values the earlier run left.
RunAgain ==
    /\ pc \in {"done", "returned", "raised"}
    /\ pc' = "start"
    /\ rerun' = TRUE
    /\ previous_rows' = origin_rows
    /\ timelist' = <<>>
    /\ origins_subLayer' = EmptyDict
    /\ destinations_subLayer' = EmptyDict
    /\ origins_oid_dict' = EmptyDict
    /\ destinations_oid_dict' = EmptyDict
    /\ OD_count_dict' = EmptyDict
    /\ timeOfDay' = 0
    /\ next_t' = 0
    /\ num_dests' = 0
    /\ percent_of_times_reachable' = EmptyDict
    /\ errors' = <<>>
    /\ messages' = <<>>
    /\ solve_log' = <<>>
    /\ times_reached' = [p \in OriginOIDs \X DestOIDs |-> 0]
    /\ UNCHANGED <<extension, layer_desc, origins_feature_class, destinations_feature_class,
                   destinations_weight_field, time_window, table_vars, val_vars>>

\* ================================================== ToolValidator.py
\* Text values are sequences of one-character strings.
\* Days of the week
days == {
    <<"M", "o", "n", "d", "a", "y">>,
    <<"T", "u", "e", "s", "d", "a", "y">>,
    <<"W", "e", "d", "n", "e", "s", "d", "a", "y">>,
    <<"T", "h", "u", "r", "s", "d", "a", "y">>,
    <<"F", "r", "i", "d", "a", "y">>,
    <<"S", "a", "t", "u", "r", "d", "a", "y">>,
    <<"S", "u", "n", "d", "a", "y">>}

\* The defaults of the tool's parameters.
DefaultStartTime == <<"0", "8", ":", "0", "0">>
DefaultEndTime == <<"0", "9", ":", "0", "0">>
DefaultDay == <<"W", "e", "d", "n", "e", "s", "d", "a", "y">>

\* What a user types into a time of day parameter.
TimeInputs == {
    <<"0", "8", ":", "0", "0">>,
    <<"0", "9", ":", "0", "0">>,
    <<"0", "7", ":", "0", "0">>,
    <<"8", ":", "0", "0">>,
    <<"2", "5", ":", "7", "0">>,
    <<"4", "8", ":", "0", "0">>,
    <<"4", "9", ":", "0", "0">>,
    <<" ", "0", "8", ":", "3", "0", "\n">>}

\* What a user types into a day parameter.
DayInputs == {
    <<"W", "e", "d", "n", "e", "s", "d", "a", "y">>,
    <<"M", "o", "n", "d", "a", "y">>,
    <<"2", "0", "2", "4", "0", "1", "1", "5">>,
    <<"J", "a", "n", " ", "1", "5">>,
    <<"1", "3", "/", "0", "2", "/", "2", "0", "2", "4">>,
    <<"2", "0", "2", "4", "1", "1", "5">>,
    <<"2", "0", "2", "3", "0", "2", "2", "9">>}

NoMessage == [kind |-> "none", text |-> ""]
ErrorMessage(text) == [kind |-> "error", text |-> text]
WarningMessage(text) == [kind |-> "warning", text |-> text]

TimeFormatErrorMessage == "Time of day format should be HH:MM (24-hour time). For example, 2am is 02:00, and 2pm is 14:00."
TimeNumErrorMessage == "Hours cannot be > 48; minutes cannot be > 59."
TimeWindowErrorMessage == "Time window invalid!  Make sure the time window end is later than the time window start."
DayErrorMessage == "Please enter a date in YYYYMMDD format or a weekday."
SpecificDateWarning == "You have chosen to use a specific date for this analysis."
\* the host's own error for a value that is not in the parameter's filter list
NotInListError == "ERROR 000800"

IsSpace(c) == c \in {" ", "\t", "\n"}
IsDigit(c) == c \in {"0", "1", "2", "3", "4", "5", "6", "7", "8", "9"}
IsNonzeroDigit(c) == IsDigit(c) /\ c # "0"
DigitValue(c) ==
    CASE c = "0" -> 0 [] c = "1" -> 1 [] c = "2" -> 2 [] c = "3" -> 3 [] c = "4" -> 4
      [] c = "5" -> 5 [] c = "6" -> 6 [] c = "7" -> 7 [] c = "8" -> 8 [] c = "9" -> 9

\* int() of a sequence of digits
RECURSIVE ParseInt(_)
ParseInt(s) == IF s = <<>> THEN 0 ELSE 10 * ParseInt(SubSeq(s, 1, Len(s) - 1)) + DigitValue(s[Len(s)])

\* str.strip()
RECURSIVE Strip(_)
Strip(s) ==
    IF s = <<>> THEN s
    ELSE IF IsSpace(Head(s)) THEN Strip(Tail(s))
    ELSE IF IsSpace(s[Len(s)]) THEN Strip(SubSeq(s, 1, Len(s) - 1))
    ELSE s

\* str.split(sep) for a one-character separator
RECURSIVE Split(_, _)
Split(s, sep) ==
    IF \A i \in DOMAIN s : s[i] # sep THEN <<s>>
    ELSE LET i == CHOOSE j \in DOMAIN s : s[j] = sep /\ \A k \in 1..(j - 1) : s[k] # sep
         IN <<SubSeq(s, 1, i - 1)>> \o Split(SubSeq(s, i + 1, Len(s)), sep)

\* float() of the text of a whole number, blanks around it allowed
Float(s) == ParseInt(Strip(s))

\* re.match("^\s*([0-9]{2}):([0-9]{2})\s*$", s): the two groups, or <<>> for None
TimeMatch(s) ==
    LET n == Len(s)
        lead == CHOOSE i \in 0..n :
                    /\ \A j \in 1..i : IsSpace(s[j])
                    /\ (i = n \/ ~IsSpace(s[i + 1]))
    IN IF /\ lead + 5 <= n
          /\ IsDigit(s[lead + 1])
          /\ IsDigit(s[lead + 2])
          /\ s[lead + 3] = ":"
          /\ IsDigit(s[lead + 4])
          /\ IsDigit(s[lead + 5])
          /\ \A j \in (lead + 6)..n : IsSpace(s[j])
       THEN <<SubSeq(s, lead + 1, lead + 2), SubSeq(s, lead + 4, lead + 5)>>
       ELSE <<>>

\* (changed) hours of a 24-hour clock
TimeNumErrorDay(hours, minutes) ==
    hours < 0 \/ hours > 24 \/ minutes < 0 \/ minutes > 59

\* hours < 0 or hours > 48, minutes < 0 or minutes > 59
TimeNumError(hours, minutes) ==
    hours < 0 \/ hours > 48 \/ minutes < 0 \/ minutes > 59

\* is_time_valid: what it returns and the error message it sets ("" for none)
is_time_valid(param_time) ==
    IF param_time.altered
    THEN LET m == TimeMatch(param_time.value)
         IN IF m = <<>>
            THEN [valid |-> FALSE, error |-> TimeFormatErrorMessage]
            ELSE IF TimeNumError(ParseInt(m[1]), ParseInt(m[2]))
                 THEN [valid |-> FALSE, error |-> TimeNumErrorMessage]
                 ELSE [valid |-> TRUE, error |-> ""]
    ELSE [valid |-> TRUE, error |-> ""]

\* (float(H) * 3600) + (float(M) * 60) of value.split(':')
Seconds(value) ==
    LET HM == Split(value, ":")
    IN (Float(HM[1]) * 3600) + (Float(HM[2]) * 60)

\* ---- datetime.datetime.strptime(text, '%Y%m%d')
\* %m is 1[0-2]|0[1-9]|[1-9] and %d is 3[0-1]|[1-2]\d|0[1-9]|[1-9]| [1-9]; the
\* first alternatives that match are taken, and text left over is an error.
MonthLen2(s, i) ==
    /\ i + 1 <= Len(s)
    /\ \/ s[i] = "1" /\ s[i + 1] \in {"0", "1", "2"}
       \/ s[i] = "0" /\ IsNonzeroDigit(s[i + 1])
MonthLen1(s, i) == i <= Len(s) /\ IsNonzeroDigit(s[i])
DayLen(s, i) ==
    IF /\ i + 1 <= Len(s)
       /\ \/ s[i] = "3" /\ s[i + 1] \in {"0", "1"}
          \/ s[i] \in {"1", "2"} /\ IsDigit(s[i + 1])
          \/ s[i] = "0" /\ IsNonzeroDigit(s[i + 1])
    THEN 2
    ELSE IF i <= Len(s) /\ IsNonzeroDigit(s[i]) THEN 1
    ELSE IF i + 1 <= Len(s) /\ s[i] = " " /\ IsNonzeroDigit(s[i + 1]) THEN 2
    ELSE 0

IsLeapYear(y) == (y % 4 = 0 /\ y % 100 # 0) \/ y % 400 = 0
DaysInMonth(y, m) ==
    IF m = 2 THEN (IF IsLeapYear(y) THEN 29 ELSE 28)
    ELSE IF m \in {4, 6, 9, 11} THEN 30 ELSE 31

\* TRUE when strptime returns a date, FALSE when it raises ValueError
strptime_Ymd(s) ==
    IF ~(Len(s) >= 4 /\ \A i \in 1..4 : IsDigit(s[i])) THEN FALSE
    ELSE LET mlen == IF MonthLen2(s, 5) /\ DayLen(s, 7) > 0 THEN 2
                     ELSE IF MonthLen1(s, 5) /\ DayLen(s, 6) > 0 THEN 1
                     ELSE 0
             dlen == DayLen(s, 5 + mlen)
             year == ParseInt(SubSeq(s, 1, 4))
             month == ParseInt(SubSeq(s, 5, 4 + mlen))
             day == ParseInt(Strip(SubSeq(s, 5 + mlen, 4 + mlen + dlen)))
         IN /\ mlen > 0
            /\ 4 + mlen + dlen = Len(s)
            /\ year >= 1
            /\ day <= DaysInMonth(year, month)

\* ---- the Parameter objects of the dialog
TimeParams == {"param_starttime", "param_endtime"}
DayParams == {"param_startday", "param_endday"}
Parameter(value) ==
    [value |-> value, altered |-> FALSE, hasBeenValidated |-> TRUE, enabled |-> TRUE,
     message |-> NoMessage]
hasError(param) == param.message.kind = "error"

ValInit ==
    /\ params = [n \in TimeParams \cup DayParams |->
                   IF n = "param_starttime" THEN Parameter(DefaultStartTime)
                   ELSE IF n = "param_endtime" THEN Parameter(DefaultEndTime)
                   ELSE Parameter(DefaultDay)]
    /\ last_call = [method |-> "", param |-> "", errors |-> {}]
    /\ edits = 0

\* The user types a value into a parameter of the dialog.
UserAlters ==
    \E n \in TimeParams \cup DayParams :
        \E v \in (IF n \in TimeParams THEN TimeInputs ELSE DayInputs) :
            /\ params[n].enabled
            /\ edits < MaxEdits
            /\ edits' = edits + 1
            /\ params' = [params EXCEPT ![n].value = v, ![n].altered = TRUE,
                                        ![n].hasBeenValidated = FALSE]
            /\ last_call' = [method |-> "", param |-> "", errors |-> {}]
            /\ UNCHANGED run_vars

\* The host's internal validation: the messages of the last pass are dropped,
\* a day that is not in a filter list gets the host's error 000800, and every
\* parameter has been validated.
HostValidates ==
    \E filtered \in BOOLEAN :
        /\ params' = [n \in DOMAIN params |->
                        [params[n] EXCEPT
                            !.hasBeenValidated = TRUE,
                            !.message = IF filtered /\ n \in DayParams /\ params[n].value \notin days
                                        THEN ErrorMessage(NotInListError)
                                        ELSE NoMessage]]
        /\ last_call' = [method |-> "", param |-> "", errors |-> {}]
        /\ UNCHANGED <<run_vars, edits>>

\* validate_day(param_day); clearMessage() works or does nothing
validate_day ==
    \E n \in DayParams : \E clears \in BOOLEAN :
        LET param_day == params[n]
            unparsed == /\ param_day.altered
                        /\ param_day.value \notin days
                        /\ ~strptime_Ymd(param_day.value)
            downgraded == /\ param_day.altered
                          /\ param_day.value \notin days
                          /\ strptime_Ymd(param_day.value)
                          /\ hasError(param_day)
                          /\ param_day.message.text = NotInListError
        IN /\ params' =
                IF unparsed THEN [params EXCEPT ![n].message = ErrorMessage(DayErrorMessage)]
                ELSE IF downgraded
                     THEN [params EXCEPT ![n].message =
                              IF clears THEN NoMessage ELSE WarningMessage(SpecificDateWarning)]
                     ELSE params
           /\ last_call' = [method |-> "validate_day", param |-> n,
                            errors |-> IF unparsed THEN {<<n, DayErrorMessage>>} ELSE {}]
           /\ UNCHANGED <<run_vars, edits>>

\* the end day is editable once the start day was altered
EndDayEditableOnceAltered(param_startday) == param_startday.altered

\* the end day is editable unless the start day is a weekday (lines 80-83)
EndDayEditable(param_startday) == param_startday.value \notin days

\* set_end_day(param_startday, param_endday)
set_end_day ==
    LET param_startday == params["param_startday"]
        mirrored == IF param_startday.value # <<>> /\ ~param_startday.hasBeenValidated
                    THEN [params EXCEPT !["param_endday"].value = param_startday.value]
                    ELSE params
    IN /\ params' = [mirrored EXCEPT !["param_endday"].enabled = EndDayEditable(param_startday)]
       /\ last_call' = [method |-> "set_end_day", param |-> "param_endday", errors |-> {}]
       /\ UNCHANGED <<run_vars, edits>>

\* the end of the window is not later than its start (line 119)
WindowEndsEarly(param_starttime, param_endtime) ==
    Seconds(param_endtime.value) <= Seconds(param_starttime.value)

\* the guard of the comparison of the two times (line 114)
TimesCompared(param_starttime, param_endtime, t1valid, t2valid) ==
    param_starttime.altered /\ param_endtime.altered /\ t1valid /\ t2valid

\* check_time_window(param_starttime, param_endtime, param_startday, param_endday)
check_time_window ==
    LET param_starttime == params["param_starttime"]
        param_endtime == params["param_endtime"]
        t1 == is_time_valid(param_starttime)
        t2 == is_time_valid(param_endtime)
        window == /\ params["param_startday"].value = params["param_endday"].value
                  /\ TimesCompared(param_starttime, param_endtime, t1.valid, t2.valid)
                  /\ WindowEndsEarly(param_starttime, param_endtime)
    IN /\ params' =
            [params EXCEPT
                !["param_starttime"].message =
                    IF t1.error # "" THEN ErrorMessage(t1.error) ELSE @,
                !["param_endtime"].message =
                    IF window THEN ErrorMessage(TimeWindowErrorMessage)
                    ELSE IF t2.error # "" THEN ErrorMessage(t2.error) ELSE @]
       /\ last_call' =
            [method |-> "check_time_window", param |-> "",
             errors |-> {<<"param_starttime", t1.error>> : x \in {1} \cap {IF t1.error # "" THEN 1 ELSE 0}}
                        \cup {<<"param_endtime", t2.error>> : x \in {1} \cap {IF t2.error # "" THEN 1 ELSE 0}}
                        \cup {<<"param_endtime", TimeWindowErrorMessage>> : x \in {1} \cap {IF window THEN 1 ELSE 0}}]
       /\ UNCHANGED <<run_vars, edits>>

RunNext ==
    \/ Setup
    \/ SolveSucceeds
    \/ SolveNoSolution
    \/ SolveFails
    \/ Statistics

Init == RunInit /\ ValInit
Next == RunNext
Spec == Init /\ [][Next]_vars

\* runTool run any number of times on the same origins table
NextTwice == RunNext \/ RunAgain
SpecTwice == Init /\ [][NextTwice]_vars

\* ---- the dialog alone: the user edits, the host validates, the methods run
RunIdle ==
    /\ RunInit
    /\ extension = "Available"
    /\ layer_desc = ODLayer
    /\ origins_feature_class = OriginOIDs
    /\ ~destinations_weight_field
    /\ DOMAIN destinations_feature_class = DestOIDs
    /\ time_window = 1

InitValidator == RunIdle /\ ValInit
NextValidator ==
    \/ UserAlters
    \/ HostValidates
    \/ validate_day
    \/ set_end_day
    \/ check_time_window
SpecValidator == InitValidator /\ [][NextValidator]_vars


\* ===================================================== properties of runTool
\* What the statistics are meant to be, from the inputs and from what the
\* solver returned (by the ObjectIDs of the input tables).
SetupSucceeded == DOMAIN origins_subLayer # {}
StatisticsReached == Len(messages) > 0 /\ StatisticsMessage \in Range(messages)
Included ==
    IF destinations_weight_field
    THEN {d \in DOMAIN destinations_feature_class :
             destinations_feature_class[d] \notin {Null, Long(0)}}
    ELSE DOMAIN destinations_feature_class
WeightOf(d) == IF destinations_weight_field THEN destinations_feature_class[d].num ELSE 1
WeightSum(S) == SumOver([d \in S |-> WeightOf(d)], S)
ReachedOnce(o) == {d \in DestOIDs : times_reached[<<o, d>>] > 0}
ReachedShare(o, t) ==
    {d \in DestOIDs : /\ times_reached[<<o, d>>] > 0
                      /\ 100 * times_reached[<<o, d>>] >= t * time_window}
Cell(o, f) == origin_rows[o][f]
NoNegativeWeight ==
    destinations_weight_field =>
        \A d \in DOMAIN destinations_feature_class : destinations_feature_class[d].num >= 0
SomeSolveFailed == \E i \in DOMAIN solve_log : solve_log[i].result # "Solved"

\* C1: when the run is done, the percentage of times each origin reached each
\* destination it reached at least once is 100 * (successful solves holding the
\* pair) / (all the instants of the time window), failed solves included.
C1_PercentOverAllInstants ==
    pc = "done" =>
        \A o \in origins_feature_class : \A d \in ReachedOnce(o) :
            \E p \in DOMAIN percent_of_times_reachable :
                /\ origins_subLayer[p[1]] = o
                /\ destinations_subLayer[p[2]] = d
                /\ FracEq(percent_of_times_reachable[p],
                          Frac(100 * times_reached[<<o, d>>], time_window))

\* a run in which a solve failed and a destination was reached in half of the instants
C1_Witness ==
    /\ pc = "done"
    /\ SomeSolveFailed
    /\ \E p \in DOMAIN percent_of_times_reachable :
           FracEq(percent_of_times_reachable[p], Long(50))

BucketsNonIncreasing ==
    \A o \in origins_feature_class : \A i \in 1..8 :
        /\ Cell(o, dest_field(i)).num >= Cell(o, dest_field(i + 1)).num
        /\ FracGeq(Cell(o, perc_field(i)), Cell(o, perc_field(i + 1)))

\* C2 as claimed: for every origin written, DsAL10Perc..DsAL90Perc and
\* PsAL10Perc..PsAL90Perc are non-increasing, whatever weights the run accepts.
C2_NonIncreasingAnyWeights == pc = "done" => BucketsNonIncreasing

\* C2 amended: for every origin written, DsAL10Perc..DsAL90Perc and
\* PsAL10Perc..PsAL90Perc are non-increasing when no destination weight is
\* negative (or no weight field is given).
C2_NonIncreasing == (pc = "done" /\ NoNegativeWeight) => BucketsNonIncreasing

\* a weighted run where an origin's buckets strictly fall and stay above zero
C2_Witness ==
    /\ pc = "done"
    /\ destinations_weight_field
    /\ NoNegativeWeight
    /\ \E o \in origins_feature_class :
           /\ Cell(o, dest_field(1)).num > Cell(o, dest_field(9)).num
           /\ Cell(o, dest_field(9)).num > 0

\* C3: once setup has succeeded the solver is called once for each instant of
\* the list, in list order, with the time of day set to that instant; no
\* outcome of a solve ends the loop, and after the loop the run is in the
\* statistics step or past it.
C3_EveryInstantSolved ==
    SetupSucceeded =>
        /\ Len(solve_log) = next_t
        /\ next_t <= Len(timelist)
        /\ \A i \in DOMAIN solve_log : solve_log[i].timeOfDay = timelist[i]
        /\ pc = "solve" => next_t < Len(timelist)
        /\ pc # "solve" =>
              /\ Len(solve_log) = Len(timelist)
              /\ pc \in {"stats", "done", "raised"}
              /\ pc # "stats" => StatisticsReached
        /\ pc = "solve" => ENABLED (SolveSucceeds \/ SolveNoSolution \/ SolveFails)

\* a failed solve followed by a successful one, and the statistics written
C3_Witness ==
    /\ pc = "done"
    /\ Len(solve_log) >= 2
    /\ solve_log[1].result = "Error"
    /\ solve_log[2].result = "Solved"

\* C4: with a weight field, the destinations loaded into the solver are those
\* whose weight is neither Null nor 0, the others are never reached and add
\* nothing to any origin's statistics, the total is the sum of the weights of
\* those loaded, and a table with no such destination ends the run with the
\* error about the weight field.
C4_ZeroAndNullWeightsExcluded ==
    destinations_weight_field =>
        /\ SetupSucceeded =>
              /\ Range(destinations_subLayer) = Included
              /\ \A o \in OriginOIDs : ReachedOnce(o) \subseteq Included
        /\ StatisticsReached => num_dests = WeightSum(Included)
        /\ pc = "done" =>
              \A o \in origins_feature_class :
                  Cell(o, "TotalDests") = Long(WeightSum(ReachedOnce(o) \cap Included))
        /\ (Included = {} /\ pc # "start") =>
              /\ ~SetupSucceeded
              /\ pc \in {"returned", "raised"}
              /\ (/\ extension = "Available"
                  /\ layer_desc = ODLayer
                  /\ origins_feature_class # {}
                  /\ DOMAIN destinations_feature_class # {}
                  /\ time_window > 0)
                 => (pc = "returned" /\ errors = <<WeightError>>)

\* a weighted run that left a destination out and counted another
C4_Witness ==
    /\ pc = "done"
    /\ destinations_weight_field
    /\ Included # DOMAIN destinations_feature_class
    /\ \E o \in origins_feature_class : Cell(o, "TotalDests").num > 0

LicenseUnavailable == extension # "Available"
LayerMissing == layer_desc.dataType = "DoesNotExist"
InvalidLayerType == ~LayerMissing /\ layer_desc # ODLayer
EmptyOrigins == origins_feature_class = {}
EmptyDestinations == DOMAIN destinations_feature_class = {}
InvalidTimeWindow == time_window = 0
NoValidWeightedDestinations ==
    destinations_weight_field /\ ~EmptyDestinations /\ Included = {}
FatalValidation ==
    \/ InvalidLayerType
    \/ EmptyOrigins
    \/ EmptyDestinations
    \/ InvalidTimeWindow
    \/ NoValidWeightedDestinations
\* the error message of a fatal validation kind that holds of the inputs
Reported(message) ==
    \/ message = LicenseError /\ LicenseUnavailable
    \/ message = LayerError /\ InvalidLayerType
    \/ message = EmptyOriginsError /\ EmptyOrigins
    \/ message = EmptyDestinationsError /\ EmptyDestinations
    \/ message = TimeWindowError /\ InvalidTimeWindow
    \/ message = WeightError /\ NoValidWeightedDestinations

C6_SecondRunOverwrites ==
    /\ origin_fields \in {<<>>, stats_fields}
    /\ Cardinality(Range(origin_fields)) = Len(origin_fields)
    /\ pc = "done" =>
          /\ Len(origin_fields) = 20
          /\ \A o \in origins_feature_class :
                /\ DOMAIN origin_rows[o] = Range(stats_fields)
                /\ Cell(o, "TotalDests") = Long(WeightSum(ReachedOnce(o)))
                /\ FracEq(Cell(o, "PercDests"),
                          Frac(100 * WeightSum(ReachedOnce(o)), WeightSum(Included)))
                /\ \A i \in 1..9 :
                      /\ Cell(o, dest_field(i)) = Long(WeightSum(ReachedShare(o, 10 * i)))
                      /\ FracEq(Cell(o, perc_field(i)),
                                Frac(100 * WeightSum(ReachedShare(o, 10 * i)),
                                     WeightSum(Included)))

\* a second run is done and wrote other values than the run before it
C6_Witness ==
    /\ rerun
    /\ pc = "done"
    /\ \E o \in origins_feature_class :
          /\ DOMAIN previous_rows[o] = Range(stats_fields)
          /\ previous_rows[o]["TotalDests"].num > 0
          /\ previous_rows[o]["TotalDests"] # Cell(o, "TotalDests")

\* C7: without a weight field, each origin's TotalDests is the number of
\* distinct destinations a successful solve reached from it, and the total
\* the percentages are taken of is the number of destinations.
C7_UnweightedCounts ==
    (~destinations_weight_field /\ StatisticsReached) =>
        /\ num_dests = Cardinality(DOMAIN destinations_feature_class)
        /\ pc = "done" =>
              \A o \in origins_feature_class :
                  /\ Cell(o, "TotalDests") = Long(Cardinality(ReachedOnce(o)))
                  /\ FracEq(Cell(o, "PercDests"),
                            Frac(100 * Cardinality(ReachedOnce(o)),
                                 Cardinality(DOMAIN destinations_feature_class)))

\* an unweighted run where one origin reached one destination and the other two
C7_Witness ==
    /\ ~destinations_weight_field
    /\ pc = "done"
    /\ \E o1, o2 \in origins_feature_class :
          /\ Cell(o1, "TotalDests") = Long(1)
          /\ Cell(o2, "TotalDests") = Long(2)

\* =============================================== properties of ToolValidator
\* A time of day as the tool documents it: HH:MM, blanks around it allowed,
\* hours 00..48 and minutes 00..59.
WellFormedTime(value) ==
    LET t == Strip(value)
    IN /\ Len(t) = 5
       /\ t[3] = ":"
       /\ \A i \in {1, 2, 4, 5} : IsDigit(t[i])
       /\ 10 * DigitValue(t[1]) + DigitValue(t[2]) <= 48
       /\ 10 * DigitValue(t[4]) + DigitValue(t[5]) <= 59
SecondsSinceMidnight(value) ==
    LET t == Strip(value)
    IN 3600 * (10 * DigitValue(t[1]) + DigitValue(t[2]))
         + 60 * (10 * DigitValue(t[4]) + DigitValue(t[5]))
\* an 8-digit YYYYMMDD date of the calendar
IsYYYYMMDD(value) ==
    /\ Len(value) = 8
    /\ \A i \in 1..8 : IsDigit(value[i])
    /\ LET y == ParseInt(SubSeq(value, 1, 4))
           m == ParseInt(SubSeq(value, 5, 6))
           d == ParseInt(SubSeq(value, 7, 8))
       IN y >= 1 /\ m \in 1..12 /\ d >= 1 /\ d <= DaysInMonth(y, m)
TimeErrorSet(n) ==
    \E e \in last_call.errors :
        e[1] = n /\ e[2] \in {TimeFormatErrorMessage, TimeNumErrorMessage}

\* C8 as claimed: after check_time_window, when both times are well formed and
\* the start day equals the end day, an end time that is not later than the
\* start time has the time window error set on the end time parameter,
\* whether or not both time parameters were altered.
C8_WindowErrorWheneverEndNotLater ==
    (/\ last_call.method = "check_time_window"
     /\ WellFormedTime(params["param_starttime"].value)
     /\ WellFormedTime(params["param_endtime"].value)
     /\ params["param_startday"].value = params["param_endday"].value
     /\ SecondsSinceMidnight(params["param_endtime"].value)
          <= SecondsSinceMidnight(params["param_starttime"].value))
    => <<"param_endtime", TimeWindowErrorMessage>> \in last_call.errors

\* C9: after check_time_window, an altered time parameter has a format or
\* number error set exactly when its value is not HH:MM (blanks around it
\* allowed) with hours in 0..48 and minutes in 0..59, and then it is in error.
C9_TimeAcceptedIffWellFormed ==
    last_call.method = "check_time_window" =>
        \A n \in TimeParams :
            params[n].altered =>
                /\ TimeErrorSet(n) <=> ~WellFormedTime(params[n].value)
                /\ ~WellFormedTime(params[n].value) => hasError(params[n])

\* "48:00" typed as the start is accepted and "25:70" typed as the end is not
C9_Witness ==
    /\ last_call.method = "check_time_window"
    /\ params["param_starttime"].altered
    /\ params["param_starttime"].value = <<"4", "8", ":", "0", "0">>
    /\ ~TimeErrorSet("param_starttime")
    /\ params["param_endtime"].altered
    /\ params["param_endtime"].value = <<"2", "5", ":", "7", "0">>
    /\ TimeErrorSet("param_endtime")

\* C10 as claimed: validate_day sets its error on an altered day parameter
\* exactly when the value is neither a weekday name nor an 8-digit YYYYMMDD
\* date.
C10_DayErrorIffNotWeekdayOrDate ==
    (last_call.method = "validate_day" /\ params[last_call.param].altered) =>
        (<<last_call.param, DayErrorMessage>> \in last_call.errors
            <=> ~(params[last_call.param].value \in days
                    \/ IsYYYYMMDD(params[last_call.param].value)))

\* C11: after set_end_day the end day is disabled exactly when the start day
\* is one of the seven weekday names, and whenever the start day has a value
\* and has not completed validation the end day holds the start day's value;
\* so a start day changed to a date is mirrored and leaves the end day
\* editable, and one changed back to a weekday disables it again.
C11_EndDayFollowsStartDay ==
    last_call.method = "set_end_day" =>
        /\ params["param_endday"].enabled <=> params["param_startday"].value \notin days
        /\ (params["param_startday"].value # <<>>
              /\ ~params["param_startday"].hasBeenValidated)
           => params["param_endday"].value = params["param_startday"].value

\* the start day was typed twice, the last time as a weekday other than the
\* default: the end day, never typed by the user, mirrors it and is disabled
C11_Witness ==
    /\ last_call.method = "set_end_day"
    /\ edits = 2
    /\ params["param_startday"].value = <<"M", "o", "n", "d", "a", "y">>
    /\ ~params["param_startday"].hasBeenValidated
    /\ ~params["param_endday"].altered
    /\ params["param_endday"].value = <<"M", "o", "n", "d", "a", "y">>
    /\ ~params["param_endday"].enabled

\* ================================================ properties of the loop
\* the counter the run keeps for a pair of sublayer ObjectIDs, 0 when absent
Counter(o, d) ==
    IF o \in DOMAIN OD_count_dict /\ d \in DOMAIN OD_count_dict[o]
    THEN OD_count_dict[o][d] ELSE 0
SolvedSoFar == Cardinality({i \in DOMAIN solve_log : solve_log[i].result = "Solved"})

\* C12: after any prefix of the instants has been processed, the counter of
\* each origin and destination equals the number of instants of the prefix
\* whose solve succeeded and returned the pair; failed solves and solves
\* without a solution add nothing, so no counter exceeds the number of
\* successful solves, nor the number of instants processed, and counters
\* exist for loaded origins and destinations only.
C12_CounterIsSuccessfulSolvesHoldingPair ==
    SetupSucceeded =>
        /\ \A o \in DOMAIN origins_subLayer : \A d \in DOMAIN destinations_subLayer :
              /\ Counter(o, d) = times_reached[<<origins_subLayer[o], destinations_subLayer[d]>>]
              /\ Counter(o, d) <= SolvedSoFar
              /\ Counter(o, d) <= next_t
        /\ \A o \in DOMAIN OD_count_dict :
              /\ o \in DOMAIN origins_subLayer
              /\ DOMAIN OD_count_dict[o] \subseteq DOMAIN destinations_subLayer
        /\ SolvedSoFar = 0 => OD_count_dict = EmptyDict

\* two instants processed, the first solved and the second without a
\* solution: a pair the first returned has been counted once
C12_Witness ==
    /\ next_t = 2
    /\ solve_log[1].result = "Solved"
    /\ solve_log[2].result = "No solution found"
    /\ \E o \in DOMAIN origins_subLayer : \E d \in DOMAIN destinations_subLayer :
          /\ Counter(o, d) = 1
          /\ o # origins_subLayer[o]
    /\ \E o \in DOMAIN origins_subLayer : \E d \in DOMAIN destinations_subLayer :
          Counter(o, d) = 0

\* the messages a loop with this log of solves is to leave: each instant is
\* announced, and only a solve that failed for another reason than "No
\* solution found" is followed by the notice of the failure
RECURSIVE LoopMessages(_)
LoopMessages(log) ==
    IF log = <<>> THEN <<>>
    ELSE LET last == log[Len(log)]
         IN LoopMessages(SubSeq(log, 1, Len(log) - 1))
              \o <<ToString(last.timeOfDay)>>
              \o (IF last.result = "Error" THEN <<SolveFailedMessage>> ELSE <<>>)

====
